---------------------------- MODULE Spec2Model ----------------------------
(***************************************************************************)
(* Model of nansat's generic mapper (mappers/mapper_generic.py):           *)
(* Mapper.__init__, Mapper.repare_projection and                           *)
(* Mapper.add_gcps_from_metadata.                                           *)
(*                                                                         *)
(* Representation of Python values                                         *)
(*   - a string whose characters matter (metadata values, projection       *)
(*     strings) is a sequence of one-character strings;                    *)
(*   - a metadata key or a file name is a sequence of tokens; a token is   *)
(*     an indivisible piece of text ("NC_GLOBAL#GDAL_", "NANSAT_",         *)
(*     "GCPX_000", "longitude", ...).  No separator the code searches for  *)
(*     can straddle two tokens of the alphabets used here, so searching    *)
(*     the token sequence is searching the text;                           *)
(*   - a dict is a function whose DOMAIN is the set of its keys;           *)
(*   - a float is the integer it denotes (all numeric tokens of the model  *)
(*     are unsigned decimal integers).                                     *)
(***************************************************************************)
EXTENDS Integers, Sequences, FiniteSets, TLC

(***************************************************************************)
(* Python str primitives on character sequences                            *)
(***************************************************************************)

\* str.replace(old, new) for a one-character old; new is a character sequence
RECURSIVE Replace(_, _, _)
Replace(s, old, new) ==
    IF s = <<>> THEN <<>>
    ELSE (IF Head(s) = old THEN new ELSE <<Head(s)>>) \o Replace(Tail(s), old, new)

\* str.strip(): leading and trailing whitespace removed
RECURSIVE LStrip(_)
LStrip(s) ==
    IF s # <<>> /\ Head(s) = " " THEN LStrip(Tail(s)) ELSE s

RECURSIVE RStrip(_)
RStrip(s) ==
    IF s # <<>> /\ s[Len(s)] = " " THEN RStrip(SubSeq(s, 1, Len(s) - 1)) ELSE s

Strip(s) == RStrip(LStrip(s))

\* str.split(sep) for a one-character sep: always at least one piece
RECURSIVE SplitFrom(_, _, _)
SplitFrom(s, sep, cur) ==
    IF s = <<>> THEN <<cur>>
    ELSE IF Head(s) = sep THEN <<cur>> \o SplitFrom(Tail(s), sep, <<>>)
    ELSE SplitFrom(Tail(s), sep, Append(cur, Head(s)))

Split(s, sep) == SplitFrom(s, sep, <<>>)

Digits == {"0", "1", "2", "3", "4", "5", "6", "7", "8", "9"}

DigitVal(c) ==
    CASE c = "0" -> 0 [] c = "1" -> 1 [] c = "2" -> 2 [] c = "3" -> 3
      [] c = "4" -> 4 [] c = "5" -> 5 [] c = "6" -> 6 [] c = "7" -> 7
      [] c = "8" -> 8 [] c = "9" -> 9

\* float(x) succeeds on the decimal tokens of the model, raises ValueError otherwise
IsNumber(x) == x # <<>> /\ \A k \in 1..Len(x) : x[k] \in Digits

RECURSIVE Float(_)
Float(x) ==
    IF x = <<>> THEN 0
    ELSE 10 * Float(SubSeq(x, 1, Len(x) - 1)) + DigitVal(x[Len(x)])

(***************************************************************************)
(* Python str primitives on token sequences (keys, file names)             *)
(***************************************************************************)

\* index of the first occurrence of pat in s at or after position from; 0 if none
RECURSIVE Find(_, _, _)
Find(s, pat, from) ==
    IF from + Len(pat) - 1 > Len(s) THEN 0
    ELSE IF SubSeq(s, from, from + Len(pat) - 1) = pat THEN from
    ELSE Find(s, pat, from + 1)

\* len(s.split(pat)) > 1
SplitHasSecond(s, pat) == Find(s, pat, 1) # 0

\* s.split(pat)[1]: the text between the first and the second occurrence of pat
SplitSecond(s, pat) ==
    LET a == Find(s, pat, 1)
        rest == SubSeq(s, a + Len(pat), Len(s))
        b == Find(rest, pat, 1)
    IN  IF b = 0 THEN rest ELSE SubSeq(rest, 1, b - 1)


(***************************************************************************)
(* Bounds of the model                                                     *)
(***************************************************************************)

\* metadata entries NAME_000 .. NAME_<MaxLineIdx> are considered per GCP series
MaxLineIdx == 1

(***************************************************************************)
(* Constants of the source                                                 *)
(***************************************************************************)

\* 'NC_GLOBAL#GDAL_' and 'NC_GLOBAL#GDAL_NANSAT_' as token sequences
GdalPrefix == <<"NC_GLOBAL#GDAL_">>
NansatPrefix == <<"NC_GLOBAL#GDAL_", "NANSAT_">>

rmMetadatas ==
    {"NETCDF_VARNAME", "_FillValue", "_Unsigned", "ScaleRatio", "ScaleOffset",
     "dods_variable"}

gcpNames == <<"GCPPixel", "GCPLine", "GCPX", "GCPY">>

\* the default of geoMetadata.get('GeoTransform', ...), character by character
DefaultGeoTransformStr ==
    <<"(", "0", "|", "1", "|", "0", "|", "0", "|", "0", "|", "0", "|", "1", ")">>

\* latlongSRS.ExportToWkt(): some non-empty WKT without sentinel characters
latlongWkt == <<"W", "G", "S">>

\* '%s_%03d' % (gcpName, n), for the indices the model uses (n < 10)
GcpLineName(gcpName, n) == gcpName \o "_00" \o ToString(n)

\* sub in token: the substring relation on the tokens of the model
TokenHas(token, sub) ==
    \/ token = sub
    \/ sub = "NANSAT" /\ token = "NANSAT_"
    \/ \E n \in 0..9 : token = GcpLineName(sub, n)

\* sub in text, for a text given as a token sequence
Contains(text, sub) == \E k \in 1..Len(text) : TokenHas(text[k], sub)

\* dict.get(key, default)
Get(d, key, default) == IF key \in DOMAIN d THEN d[key] ELSE default

\* dict with one key removed / set
Pop(d, key) == [k \in DOMAIN d \ {key} |-> d[k]]
Put(d, key, val) == [k \in DOMAIN d \cup {key} |-> IF k = key THEN val ELSE d[k]]

EmptyDict == [k \in {} |-> <<>>]

(***************************************************************************)
(* Mapper.repare_projection                                                *)
(***************************************************************************)
repare_projection(projection) ==
    Replace(Replace(projection, "|", <<",">>), "&", <<"\"">>)

(***************************************************************************)
(* Mapper.add_gcps_from_metadata                                           *)
(***************************************************************************)

\* the number of metadata keys that contain gcpName
gcpLineCount(geoMetadata, gcpName) ==
    Cardinality({k \in DOMAIN geoMetadata : Contains(k, gcpName)})

\* geoMetadata[gcpLineName] raises KeyError for some n in range(gcpLineCount)
GcpKeyError(geoMetadata, gcpName) ==
    \E n \in 0..(gcpLineCount(geoMetadata, gcpName) - 1) :
        <<GcpLineName(gcpName, n)>> \notin DOMAIN geoMetadata

\* the lines NAME_000 .. NAME_(n-1) concatenated
RECURSIVE GcpConcat(_, _, _)
GcpConcat(geoMetadata, gcpName, n) ==
    IF n = 0 THEN <<>>
    ELSE GcpConcat(geoMetadata, gcpName, n - 1)
            \o geoMetadata[<<GcpLineName(gcpName, n - 1)>>]

\* the non-empty tokens of the stripped, space-free, '|'-split string
GcpTokens(geoMetadata, gcpName) ==
    LET gcpString == GcpConcat(geoMetadata, gcpName,
                               gcpLineCount(geoMetadata, gcpName))
        stripped == Replace(Strip(gcpString), " ", <<>>)
    IN  SelectSeq(Split(stripped, "|"), LAMBDA x : Len(x) > 0)

\* float(x) raises ValueError for some token
GcpValueError(geoMetadata, gcpName) ==
    \E k \in 1..Len(GcpTokens(geoMetadata, gcpName)) :
        ~IsNumber(GcpTokens(geoMetadata, gcpName)[k])

gcpValues(geoMetadata, gcpName) ==
    LET toks == GcpTokens(geoMetadata, gcpName)
    IN  [k \in 1..Len(toks) |-> Float(toks[k])]

\* gdal.GCP(x, y, z, pixel, line)
GCP(x, y, z, pixel, line) ==
    [GCPX |-> x, GCPY |-> y, GCPZ |-> z, GCPPixel |-> pixel, GCPLine |-> line]

\* the first exception raised while the four series are read, "" if none:
\* the names are handled in order, each one concatenated (KeyError) and then
\* converted (ValueError) before the next is touched
RECURSIVE GcpReadError(_, _)
GcpReadError(geoMetadata, i) ==
    IF i > Len(gcpNames) THEN ""
    ELSE IF GcpKeyError(geoMetadata, gcpNames[i]) THEN "KeyError"
    ELSE IF GcpValueError(geoMetadata, gcpNames[i]) THEN "ValueError"
    ELSE GcpReadError(geoMetadata, i + 1)

\* gcpAllValues[2][i] etc. with i in range(len(gcpAllValues[0])) raises IndexError
GcpIndexError(gcpAllValues) ==
    \E j \in 2..4 : Len(gcpAllValues[j]) < Len(gcpAllValues[1])

\* GcpList with the arguments of gdal.GCP in the order (pixel, line, z, x, y)
GcpList_PixelLineFirst(gcpAllValues) ==
    [i \in 1..Len(gcpAllValues[1]) |->
        GCP(gcpAllValues[1][i], gcpAllValues[2][i], 0,
            gcpAllValues[3][i], gcpAllValues[4][i])]

GcpList(gcpAllValues) ==
    [i \in 1..Len(gcpAllValues[1]) |->
        GCP(gcpAllValues[3][i], gcpAllValues[4][i], 0,
            gcpAllValues[1][i], gcpAllValues[2][i])]

\* The outcome of the call: the exception that leaves it ("" if it returns),
\* the GCP list built, and whether SetGCPs / _remove_geotransform were run.
add_gcps_from_metadata(geoMetadata) ==
    LET readError == GcpReadError(geoMetadata, 1)
        gcpAllValues == [j \in 1..4 |-> gcpValues(geoMetadata, gcpNames[j])]
    IN  IF readError # ""
        THEN [error |-> readError, gcps |-> <<>>, installed |-> FALSE,
              projection |-> <<>>]
        ELSE IF GcpIndexError(gcpAllValues)
        THEN [error |-> "IndexError", gcps |-> <<>>, installed |-> FALSE,
              projection |-> <<>>]
        ELSE LET gcps == GcpList(gcpAllValues)
             IN  [error |-> "", gcps |-> gcps, installed |-> Len(gcps) > 0,
                  projection |->
                      IF Len(gcps) > 0
                      THEN repare_projection(
                               Get(geoMetadata, <<"GCPProjection">>, <<>>))
                      ELSE <<>>]

(***************************************************************************)
(* Mapper.__init__, lines 15-27: metadata normalisation                    *)
(***************************************************************************)

\* One pass of the for-loop body for `key`; st = [tmp, geoMetadata].
\* Every exception (the IndexError of split(...)[1]) is swallowed by the
\* bare except; what was assigned before it stays assigned.
NormalizeKey(st, key, value) ==
    IF ~SplitHasSecond(key, GdalPrefix) THEN st
    ELSE LET stripped == SplitSecond(key, GdalPrefix)
             tmp1 == Put(st.tmp, stripped, value)
         IN  IF ~Contains(key, "NANSAT") THEN [st EXCEPT !.tmp = tmp1]
             ELSE IF ~SplitHasSecond(key, NansatPrefix) THEN [st EXCEPT !.tmp = tmp1]
             ELSE [tmp |-> Pop(tmp1, stripped),
                   geoMetadata |-> Put(st.geoMetadata,
                                       SplitSecond(key, NansatPrefix), value)]

\* the loop over gdalMetadata.keys(), in the iteration order `order`
RECURSIVE NormalizeAll(_, _, _)
NormalizeAll(raw, order, n) ==
    IF n = 0 THEN [tmp |-> EmptyDict, geoMetadata |-> EmptyDict]
    ELSE NormalizeKey(NormalizeAll(raw, order, n - 1), order[n], raw[order[n]])

(***************************************************************************)
(* Mapper.__init__, lines 64-105: one band descriptor                      *)
(***************************************************************************)

\* bandMetadata.get(k1, bandMetadata.get(k2, bandMetadata.get(k3, '')))
GetChain(bandMetadata, k1, k2, k3) ==
    Get(bandMetadata, k1, Get(bandMetadata, k2, Get(bandMetadata, k3, "")))

SrcDescriptor(fileName, sourceBands, subBand, bandMetadata) ==
    LET scaleRatio == GetChain(bandMetadata, "ScaleRatio", "scale", "scale_factor")
        scaleOffset == GetChain(bandMetadata, "ScaleOffset", "offset", "add_offset")
        src0 == ("SourceFilename" :> fileName) @@ ("SourceBand" :> sourceBands)
        src1 == IF scaleRatio # "" THEN Put(src0, "ScaleRatio", scaleRatio) ELSE src0
        src2 == IF scaleOffset # "" THEN Put(src1, "ScaleOffset", scaleOffset) ELSE src1
    IN  Put(src2, "DataType", subBand.DataType)

\* WkvOf with a placeholder for the missing standard name
WkvOf_Placeholder(bandMetadata) == Get(bandMetadata, "standard_name", "unknown")

\* dst['wkv'] = bandMetadata.get('standard_name', '')
WkvOf(bandMetadata) == Get(bandMetadata, "standard_name", "")

BandNameOf(bandMetadata) ==
    LET bandName == Get(bandMetadata, "NETCDF_VARNAME", "")
    IN  IF bandName = "" THEN Get(bandMetadata, "dods_variable", "") ELSE bandName

DstDescriptor(bandMetadata) ==
    LET dst1 == Put(bandMetadata, "wkv", WkvOf(bandMetadata))
        bandName == BandNameOf(dst1)
        dst2 == IF bandName # "" THEN Put(dst1, "name", bandName) ELSE dst1
    IN  [k \in DOMAIN dst2 \ rmMetadatas |-> dst2[k]]

BandDescriptor(fileName, iBand, subBand) ==
    LET md == subBand.metadata
        bandMetadata == IF "PixelFunctionType" \in DOMAIN md
                        THEN Pop(md, "PixelFunctionType") ELSE md
    IN  [src |-> SrcDescriptor(fileName, iBand, subBand, bandMetadata),
         dst |-> DstDescriptor(bandMetadata)]

\* the descriptors of bands 1..n of one subdataset, in band order
BandDescriptors(subDataset) ==
    [iBand \in 1..Len(subDataset.bands) |->
        BandDescriptor(subDataset.fileName, iBand, subDataset.bands[iBand])]

\* lines 59-62: the classification of a file name
IsXName(fileName) ==
    Contains(fileName, "GEOLOCATION_X_DATASET") \/ Contains(fileName, "longitude")

IsYName(fileName) ==
    ~IsXName(fileName)
    /\ (Contains(fileName, "GEOLOCATION_Y_DATASET") \/ Contains(fileName, "latitude"))

\* IsFirstGrid with the height test dropped
IsFirstGrid_WidthOnly(fx, fy, subDataset) ==
    fx = 0 /\ fy = 0 /\ subDataset.RasterXSize > 1

\* lines 48-49: this subdataset becomes the reference grid
IsFirstGrid(fx, fy, subDataset) ==
    fx = 0 /\ fy = 0 /\ subDataset.RasterXSize > 1 /\ subDataset.RasterYSize > 1

\* SameSize with the height test dropped
SameSize_WidthOnly(fx, fy, subDataset) ==
    subDataset.RasterXSize = fx

\* lines 57-58: the subdataset has the size of the reference grid
SameSize(fx, fy, subDataset) ==
    subDataset.RasterXSize = fx /\ subDataset.RasterYSize = fy

(***************************************************************************)
(* Mapper.__init__, lines 136-140: the geotransform from metadata          *)
(***************************************************************************)

\* eval() of a tuple literal of decimal numbers, parenthesised or not
EvalTuple(s) ==
    LET inner == IF Len(s) >= 2 /\ s[1] = "(" /\ s[Len(s)] = ")"
                 THEN SubSeq(s, 2, Len(s) - 1) ELSE s
        parts == Split(inner, ",")
    IN  [k \in 1..Len(parts) |-> Float(parts[k])]

GeoTransformFromMetadata(geoMetadata) ==
    LET geoTransformStr == Get(geoMetadata, <<"GeoTransform">>, DefaultGeoTransformStr)
    IN  EvalTuple(Replace(geoTransformStr, "|", <<",">>))

(***************************************************************************)
(* State                                                                   *)
(***************************************************************************)
VARIABLES
    rawMetadata,      \* the gdalMetadata argument: raw key -> value
    keyOrder,         \* the order in which gdalMetadata.keys() yields the keys
    gdalDataset,      \* [file, subDatasets]: what gdal.Open gives for each name
    pc,               \* the position of __init__
    error,            \* the exception that left __init__, "" if none
    gdalMetadata,     \* the normalised primary mapping (tmp)
    geoMetadata,      \* the geo-metadata mapping
    i,                \* index of the next entry of fileNames
    firstXSize,
    firstYSize,
    firstSubDataset,  \* index in fileNames of the reference grid, 0 while unbound
    projection,
    xDatasetSource,
    yDatasetSource,
    metaDict,
    self              \* the VRT under construction

vars ==
    <<rawMetadata, keyOrder, gdalDataset, pc, error, gdalMetadata, geoMetadata, i,
      firstXSize, firstYSize, firstSubDataset, projection, xDatasetSource,
      yDatasetSource, metaDict, self>>

inputs == <<rawMetadata, keyOrder, gdalDataset>>

\* lines 32-36
fileNames ==
    IF Len(gdalDataset.subDatasets) = 0
    THEN <<gdalDataset.file>> ELSE gdalDataset.subDatasets

\* the object before VRT.__init__ has run: nothing created, nothing installed
NoVRT ==
    [created |-> FALSE, srcMetadata |-> EmptyDict,
     bandsCreated |-> FALSE, bands |-> <<>>,
     projectionSet |-> FALSE, projection |-> <<>>,
     nativeGCPCount |-> 0,
     gcpsSet |-> FALSE, gcps |-> <<>>, gcpProjection |-> <<>>,
     geoTransform |-> <<>>, geoTransformSet |-> FALSE,
     geolocationArray |-> <<>>]

\* the state of the locals right after construction starts
InitLocals ==
    /\ pc = "normalize"
    /\ error = ""
    /\ gdalMetadata = EmptyDict
    /\ geoMetadata = EmptyDict
    /\ i = 1
    /\ firstXSize = 0
    /\ firstYSize = 0
    /\ firstSubDataset = 0
    /\ projection = <<>>
    /\ xDatasetSource = <<>>
    /\ yDatasetSource = <<>>
    /\ metaDict = <<>>
    /\ self = NoVRT

(***************************************************************************)
(* Actions: the statements of Mapper.__init__ in program order             *)
(***************************************************************************)

\* lines 15-27
Normalize ==
    /\ pc = "normalize"
    /\ LET st == NormalizeAll(rawMetadata, keyOrder, Len(keyOrder))
       IN  /\ gdalMetadata' = st.tmp
           /\ geoMetadata' = st.geoMetadata
    /\ pc' = "subdatasets"
    /\ UNCHANGED <<inputs, error, i, firstXSize, firstYSize, firstSubDataset,
                   projection, xDatasetSource, yDatasetSource, metaDict, self>>

\* lines 45-105: one iteration of the loop over fileNames
OpenSubDataset ==
    /\ pc = "subdatasets"
    /\ i <= Len(fileNames)
    /\ LET subDataset == fileNames[i]
           isFirst == IsFirstGrid(firstXSize, firstYSize, subDataset)
           fx == IF isFirst THEN subDataset.RasterXSize ELSE firstXSize
           fy == IF isFirst THEN subDataset.RasterYSize ELSE firstYSize
           same == SameSize(fx, fy, subDataset)
           isX == same /\ IsXName(subDataset.fileName)
           isY == same /\ IsYName(subDataset.fileName)
       IN  /\ firstXSize' = fx
           /\ firstYSize' = fy
           /\ firstSubDataset' = IF isFirst THEN i ELSE firstSubDataset
           /\ projection' = IF isFirst THEN subDataset.projection ELSE projection
           /\ xDatasetSource' = IF isX THEN subDataset.fileName ELSE xDatasetSource
           /\ yDatasetSource' = IF isY THEN subDataset.fileName ELSE yDatasetSource
           /\ metaDict' = IF same /\ ~isX /\ ~isY
                          THEN metaDict \o BandDescriptors(subDataset)
                          ELSE metaDict
    /\ i' = i + 1
    /\ pc' = IF i = Len(fileNames) THEN "vrt" ELSE "subdatasets"
    /\ UNCHANGED <<inputs, error, gdalMetadata, geoMetadata, self>>

\* What VRT.__init__(self, firstSubDataset, srcMetadata) leaves in the object:
\* the reference grid's GCPs and geotransform are those of the new dataset.
VRTCreated(first, srcMetadata) ==
    [NoVRT EXCEPT !.created = TRUE, !.srcMetadata = srcMetadata,
                  !.nativeGCPCount = first.gcpCount,
                  !.geoTransform = first.geoTransform]

\* lines 107-108; evaluating the unbound local firstSubDataset raises
VRTInit ==
    /\ pc = "vrt"
    /\ IF firstSubDataset = 0
       THEN /\ error' = "UnboundLocalError"
            /\ pc' = "failed"
            /\ self' = self
       ELSE /\ error' = error
            /\ pc' = "bands"
            /\ self' = VRTCreated(fileNames[firstSubDataset], gdalMetadata)
    /\ UNCHANGED <<inputs, gdalMetadata, geoMetadata, i, firstXSize, firstYSize,
                   firstSubDataset, projection, xDatasetSource, yDatasetSource,
                   metaDict>>

\* lines 110-111
CreateBands ==
    /\ pc = "bands"
    /\ self' = [self EXCEPT !.bandsCreated = TRUE, !.bands = metaDict]
    /\ pc' = "projection"
    /\ UNCHANGED <<inputs, error, gdalMetadata, geoMetadata, i, firstXSize,
                   firstYSize, firstSubDataset, projection, xDatasetSource,
                   yDatasetSource, metaDict>>

\* lines 113-120: the projection string handed to repare_projection
ResolveProjection(native, geoMd) ==
    LET p1 == IF Len(native) = 0 THEN Get(geoMd, <<"GCPProjection">>, <<>>) ELSE native
    IN  IF Len(p1) = 0 THEN latlongWkt ELSE p1

\* lines 113-122
SetProjection ==
    /\ pc = "projection"
    /\ projection' = ResolveProjection(projection, geoMetadata)
    /\ self' = [self EXCEPT !.projectionSet = TRUE,
                            !.projection = repare_projection(projection')]
    /\ pc' = "geolocation"
    /\ UNCHANGED <<inputs, error, gdalMetadata, geoMetadata, i, firstXSize,
                   firstYSize, firstSubDataset, xDatasetSource, yDatasetSource,
                   metaDict>>

\* self._remove_geotransform()
RemoveGeoTransform(vrt) == [vrt EXCEPT !.geoTransform = <<>>]

\* AfterGcps without the test gcpCount == 0 of line 126
AfterGcps_IgnoreNative(vrt, nativeCount, r) ==
    IF r.installed
    THEN RemoveGeoTransform([vrt EXCEPT !.gcpsSet = TRUE, !.gcps = r.gcps,
                                        !.gcpProjection = r.projection])
    ELSE vrt

\* lines 125-128: the object after the GCP step, given the outcome r of
\* add_gcps_from_metadata (r is not used when the grid has native GCPs)
AfterGcps(vrt, nativeCount, r) ==
    IF nativeCount = 0 /\ r.installed
    THEN RemoveGeoTransform([vrt EXCEPT !.gcpsSet = TRUE, !.gcps = r.gcps,
                                        !.gcpProjection = r.projection])
    ELSE vrt

\* line 131: the geolocation array is inserted (the test does not read gcpCount)
UseGeolocationArray(xSource, ySource, gcpCount) ==
    Len(xSource) > 0 /\ Len(ySource) > 0

\* UseGeoTransform with a plain else in place of elif gcpCount == 0
UseGeoTransform_NoGcpCheck(xSource, ySource, gcpCount) ==
    ~UseGeolocationArray(xSource, ySource, gcpCount)

\* line 133: the geotransform branch is entered
UseGeoTransform(xSource, ySource, gcpCount) ==
    ~UseGeolocationArray(xSource, ySource, gcpCount) /\ gcpCount = 0

\* lines 130-140: the object after the geolocation-array / geotransform step
AfterGeolocation(vrt, xSource, ySource, gcpCount, geoMd) ==
    IF UseGeolocationArray(xSource, ySource, gcpCount)
    THEN [vrt EXCEPT !.geolocationArray = <<xSource, ySource>>]
    ELSE IF UseGeoTransform(xSource, ySource, gcpCount)
              /\ Len(vrt.geoTransform) = 0
    THEN [vrt EXCEPT !.geoTransform = GeoTransformFromMetadata(geoMd),
                     !.geoTransformSet = TRUE]
    ELSE vrt

\* lines 124-140
ResolveGeolocation ==
    /\ pc = "geolocation"
    /\ LET nativeCount == fileNames[firstSubDataset].gcpCount
           r == add_gcps_from_metadata(geoMetadata)
           gcpCount == IF nativeCount = 0 THEN Len(r.gcps) ELSE nativeCount
       IN  IF nativeCount = 0 /\ r.error # ""
           THEN /\ error' = r.error
                /\ pc' = "failed"
                /\ self' = self
           ELSE /\ error' = error
                /\ pc' = "done"
                /\ self' = AfterGeolocation(AfterGcps(self, nativeCount, r),
                                            xDatasetSource, yDatasetSource,
                                            gcpCount, geoMetadata)
    /\ UNCHANGED <<inputs, gdalMetadata, geoMetadata, i, firstXSize, firstYSize,
                   firstSubDataset, projection, xDatasetSource, yDatasetSource,
                   metaDict>>

Next ==
    \/ Normalize
    \/ OpenSubDataset
    \/ VRTInit
    \/ CreateBands
    \/ SetProjection
    \/ ResolveGeolocation

(***************************************************************************)
(* Inputs                                                                  *)
(***************************************************************************)

\* more bounds of the model
MaxSubDatasets == 3
MaxKeyLen == 3

RECURSIVE SetToSeq(_)
SetToSeq(S) ==
    IF S = {} THEN <<>>
    ELSE LET x == CHOOSE y \in S : TRUE IN <<x>> \o SetToSeq(S \ {x})

\* all sequences over S of length 1..n
RECURSIVE SeqsUpTo(_, _)
SeqsUpTo(S, n) ==
    IF n = 0 THEN {}
    ELSE LET shorter == SeqsUpTo(S, n - 1)
         IN  {<<x>> : x \in S} \cup shorter
                \cup {Append(q, x) : q \in shorter, x \in S}

PlainBand == [metadata |-> ("NETCDF_VARNAME" :> "sst"), DataType |-> 6]

Dataset(name, xs, ys, bands) ==
    [fileName |-> name, RasterXSize |-> xs, RasterYSize |-> ys, bands |-> bands,
     projection |-> <<>>, gcpCount |-> 0, geoTransform |-> <<>>]

\* a container file without grid of its own
Container == Dataset(<<"file.nc">>, 1, 1, <<>>)

\* the raw metadata that normalises to the geo-metadata mapping geoMd
RawOfGeo(geoMd) ==
    [k \in {NansatPrefix \o g : g \in DOMAIN geoMd} |-> geoMd[SubSeq(k, 3, Len(k))]]

(* ---- inputs of SpecGeo: geolocation resolution ---- *)

\* "1|2", "3", " 4| ", "x"
FirstLines ==
    {<<"1", "|", "2">>, <<"3">>, <<" ", "4", "|", " ">>, <<"x">>}

\* "3", "|5"
MoreLines == {<<"3">>, <<"|", "5">>}

\* the lines of one series: index -> text, any subset of 0..MaxLineIdx present
SeriesLines ==
    UNION {{d \in [D -> FirstLines \cup MoreLines] :
                \A n \in D : d[n] \in (IF n = 0 THEN FirstLines ELSE MoreLines)} :
           D \in SUBSET (0..MaxLineIdx)}

FewLines ==
    {[n \in {} |-> <<>>], [n \in {0} |-> <<"1", "|", "2">>], [n \in {0} |-> <<"3">>]}

\* the geo-metadata entries of the four series
GcpMetadata(series) ==
    LET keys == {<<j, n>> \in (1..4) \X (0..MaxLineIdx) : n \in DOMAIN series[j]}
    IN  [k \in {<<GcpLineName(gcpNames[c[1]], c[2])>> : c \in keys} |->
            LET c == CHOOSE c \in keys : <<GcpLineName(gcpNames[c[1]], c[2])>> = k
            IN  series[c[1]][c[2]]]

GeoDataset(name, proj, count, gt) ==
    [Dataset(name, 2, 2, <<PlainBand>>) EXCEPT
        !.projection = proj, !.gcpCount = count, !.geoTransform = gt]

Lon == Dataset(<<"longitude">>, 2, 2, <<PlainBand>>)
Lat == Dataset(<<"latitude">>, 2, 2, <<PlainBand>>)

GeoSources(first) ==
    {<<first>>, <<first, Lon>>, <<first, Lat>>, <<first, Lon, Lat>>}

\* rich GCP series, few other inputs
InitGeoSeries ==
    \E pixel \in SeriesLines, line \in SeriesLines, x \in FewLines, y \in FewLines :
        LET first == GeoDataset(<<"sst">>, <<>>, 0, <<>>)
            geoMd == GcpMetadata(<<pixel, line, x, y>>)
        IN  /\ rawMetadata = RawOfGeo(geoMd)
            /\ gdalDataset = [file |-> Container, subDatasets |-> <<first>>]

\* few GCP series, every combination of the other inputs
InitGeoTiers ==
    \E good \in BOOLEAN, count \in {0, 2},
       gt \in {<<>>, <<5, 2, 0, 7, 0, 2>>},
       proj \in {<<>>, <<"P", "&">>},
       gtMd \in SUBSET {<<"GeoTransform">>},
       prMd \in SUBSET {<<"GCPProjection">>} :
        LET first == GeoDataset(<<"sst">>, proj, count, gt)
            two == [n \in {0} |-> <<"1", "|", "2">>]
            gcpMd == IF good THEN GcpMetadata(<<two, two, two, two>>) ELSE EmptyDict
            gtDict == [k \in gtMd |-> <<"3", "|", "1", "|", "0", "|", "4", "|", "0", "|", "2">>]
            prDict == [k \in prMd |-> <<"A", "|", "B", "&">>]
        IN  /\ rawMetadata = RawOfGeo(gcpMd @@ gtDict @@ prDict)
            /\ \E subs \in GeoSources(first) :
                 gdalDataset = [file |-> Container, subDatasets |-> subs]

InitGeo ==
    /\ InitGeoSeries \/ InitGeoTiers
    /\ keyOrder = SetToSeq(DOMAIN rawMetadata)
    /\ InitLocals

SpecGeo == InitGeo /\ [][Next]_vars

(* ---- inputs of SpecSub: subdataset selection ---- *)

GridSizes == {<<2, 1>>, <<2, 2>>, <<2, 3>>}

\* data subdatasets with one or two bands, coordinate subdatasets
SubShapes ==
    {Dataset(<<"sst">>, sz[1], sz[2], b) :
        sz \in GridSizes, b \in {<<PlainBand>>, <<PlainBand, PlainBand>>}}
    \cup {Dataset(<<"longitude">>, sz[1], sz[2], <<PlainBand, PlainBand>>) :
            sz \in GridSizes}
    \cup {Dataset(<<"latitude">>, sz[1], sz[2], <<PlainBand>>) : sz \in GridSizes}

\* the other spellings of the coordinate names, and a name that has both
NameShapes ==
    {Dataset(name, 2, 2, <<PlainBand>>) :
        name \in {<<"sst">>, <<"GEOLOCATION_X_DATASET">>, <<"GEOLOCATION_Y_DATASET">>,
                  <<"latitude", "longitude">>, <<"chlor_a">>}}

InitSub ==
    /\ rawMetadata = EmptyDict
    /\ keyOrder = <<>>
    /\ \/ \E subs \in SeqsUpTo(SubShapes, MaxSubDatasets) :
            gdalDataset = [file |-> Container, subDatasets |-> subs]
       \/ \E subs \in SeqsUpTo(NameShapes, 2) :
            gdalDataset = [file |-> Container, subDatasets |-> subs]
       \/ \E file \in SubShapes :
            gdalDataset = [file |-> file, subDatasets |-> <<>>]
    /\ InitLocals

SpecSub == InitSub /\ [][Next]_vars

(* ---- inputs of SpecBand: band descriptors ---- *)

\* every mapping of some of the keys to a value of vals
Dicts(keys, vals) == UNION {[D -> vals] : D \in SUBSET keys}

BandMetadatas ==
    Dicts({"ScaleRatio", "scale", "scale_factor"}, {"", "2.0", "3.0"})
    \cup Dicts({"ScaleOffset", "offset", "add_offset"}, {"", "0.5", "1.5"})
    \cup Dicts({"NETCDF_VARNAME", "dods_variable", "standard_name", "name"},
                {"", "sst", "t"})
    \cup Dicts({"PixelFunctionType", "_FillValue", "units", "standard_name"}, {"", "K"})

InitBand ==
    /\ rawMetadata = EmptyDict
    /\ keyOrder = <<>>
    /\ \E md \in BandMetadatas, second \in BOOLEAN :
        LET band == [metadata |-> md, DataType |-> 6]
            bands == IF second THEN <<PlainBand, band>> ELSE <<band>>
        IN  gdalDataset = [file |-> Container,
                           subDatasets |-> <<Dataset(<<"sst">>, 2, 2, bands)>>]
    /\ InitLocals

SpecBand == InitBand /\ [][Next]_vars

(* ---- inputs of SpecMeta: raw metadata keys ---- *)

KeyTokens == {"NC_GLOBAL#GDAL_", "NANSAT_", "a"}

RawKeys == SeqsUpTo(KeyTokens, MaxKeyLen)

\* one or two raw keys, in either iteration order; the value tells the keys apart
InitMeta ==
    /\ \/ \E k \in RawKeys :
            /\ keyOrder = <<k>>
            /\ rawMetadata = (k :> <<"u">>)
       \/ \E k1 \in RawKeys, k2 \in RawKeys :
            /\ k1 # k2
            /\ keyOrder = <<k1, k2>>
            /\ rawMetadata = (k1 :> <<"u">>) @@ (k2 :> <<"v">>)
    /\ gdalDataset = [file |-> Container,
                      subDatasets |-> <<Dataset(<<"sst">>, 2, 2, <<PlainBand>>)>>]
    /\ InitLocals

SpecMeta == InitMeta /\ [][Next]_vars

(***************************************************************************)
(* Properties: geolocation resolution (checked under SpecGeo)              *)
(***************************************************************************)

Finished == pc \in {"done", "failed"}

\* the reference grid, once bound
FirstGrid == fileNames[firstSubDataset]

BothSources == Len(xDatasetSource) > 0 /\ Len(yDatasetSource) > 0

HasNativeGcps == self.nativeGCPCount > 0
HasParsedGcps == self.gcpsSet
HasArray == self.geolocationArray # <<>>

\* the geotransform branch of the resolver was the one taken
TookGeoTransform == ~HasNativeGcps /\ ~HasParsedGcps /\ ~BothSources

HasDefaultGeoTransform ==
    self.geoTransformSet /\ <<"GeoTransform">> \notin DOMAIN geoMetadata

HasGeoTransform == TookGeoTransform /\ ~HasDefaultGeoTransform

BoolCount(b) == IF b THEN 1 ELSE 0

SeriesReadable == \A j \in 1..4 : ~GcpKeyError(geoMetadata, gcpNames[j])

SeriesLen(j) == Len(GcpTokens(geoMetadata, gcpNames[j]))

SeriesMismatch == \E j \in 2..4 : SeriesLen(j) # SeriesLen(1)

SeriesNonNumeric == \E j \in 1..4 : GcpValueError(geoMetadata, gcpNames[j])

\* C3 as stated: when the four series differ in length or a token is not a
\* number, add_gcps_from_metadata yields zero GCPs, installs none, raises
\* nothing, and construction goes on to the next tier.
C3_MismatchYieldsZeroGcps ==
    (Finished /\ firstSubDataset # 0 /\ FirstGrid.gcpCount = 0 /\ SeriesReadable
        /\ (SeriesMismatch \/ SeriesNonNumeric)) =>
        (pc = "done" /\ error = "" /\ ~self.gcpsSet /\ self.gcps = <<>>)

\* every series is given by the entries NAME_000 .. NAME_(k-1), k >= 1
SeriesContiguous ==
    \A j \in 1..4 :
        LET k == gcpLineCount(geoMetadata, gcpNames[j])
        IN  /\ k >= 1
            /\ \A n \in 0..(k - 1) :
                 <<GcpLineName(gcpNames[j], n)>> \in DOMAIN geoMetadata

\* C4: when the four series are given by entries NAME_000..NAME_(k-1), hold
\* numbers and have the same number n >= 1 of non-empty tokens, exactly n GCPs
\* are installed and the i-th is (pixel, line, x, y, 0) of the i-th values.
C4_GcpsFromSeries ==
    (Finished /\ firstSubDataset # 0 /\ FirstGrid.gcpCount = 0 /\ SeriesContiguous
        /\ ~SeriesNonNumeric /\ ~SeriesMismatch /\ SeriesLen(1) >= 1) =>
        /\ pc = "done"
        /\ self.gcpsSet
        /\ Len(self.gcps) = SeriesLen(1)
        /\ \A n \in 1..Len(self.gcps) :
             /\ self.gcps[n].GCPPixel = gcpValues(geoMetadata, "GCPPixel")[n]
             /\ self.gcps[n].GCPLine = gcpValues(geoMetadata, "GCPLine")[n]
             /\ self.gcps[n].GCPX = gcpValues(geoMetadata, "GCPX")[n]
             /\ self.gcps[n].GCPY = gcpValues(geoMetadata, "GCPY")[n]
             /\ self.gcps[n].GCPZ = 0

\* C4 witness: two GCPs, the pixel series split over two entries and distinct
\* from the line series
C4_Witness ==
    /\ pc = "done" /\ self.gcpsSet /\ Len(self.gcps) = 2
    /\ SeriesContiguous
    /\ gcpLineCount(geoMetadata, "GCPPixel") = 2
    /\ self.gcps[2].GCPPixel # self.gcps[2].GCPLine
    /\ self.gcps[2].GCPPixel # self.gcps[2].GCPX

\* C5 as stated: with no GCPs, no geolocation array and no geotransform on the
\* dataset, the geotransform installed is (0,1,0,0,0,1) when geo-metadata has no
\* 'GeoTransform' entry, and the entry's six numbers in order when it has one.
C5_DefaultGeoTransform ==
    (pc = "done" /\ ~HasNativeGcps /\ ~HasParsedGcps /\ ~BothSources
        /\ Len(FirstGrid.geoTransform) = 0) =>
        IF <<"GeoTransform">> \in DOMAIN geoMetadata
        THEN self.geoTransform = <<3, 1, 0, 4, 0, 2>>
        ELSE self.geoTransform = <<0, 1, 0, 0, 0, 1>>

(***************************************************************************)
(* Properties: subdataset selection (checked under SpecSub)                *)
(***************************************************************************)

HasGrid(k) == fileNames[k].RasterXSize > 1 /\ fileNames[k].RasterYSize > 1

NoGrid == \A k \in 1..Len(fileNames) : ~HasGrid(k)

\* the first entry, in input order, with width > 1 and height > 1; 0 if none
RefIndex ==
    IF NoGrid THEN 0
    ELSE CHOOSE k \in 1..Len(fileNames) :
            HasGrid(k) /\ \A m \in 1..(k - 1) : ~HasGrid(m)

\* C6: if no subdataset has width > 1 and height > 1, construction fails with
\* an error before _create_bands is reached: no VRT, no band descriptors, no
\* projection, GCPs, geolocation array or geotransform.
C6_NoGridFails ==
    NoGrid =>
        /\ pc \in {"normalize", "subdatasets", "vrt", "failed"}
        /\ pc = "failed" => error = "UnboundLocalError"
        /\ self = NoVRT
        /\ ~self.bandsCreated /\ ~self.projectionSet /\ ~self.gcpsSet
        /\ ~self.geoTransformSet /\ self.geolocationArray = <<>>

\* C6 witness: construction has failed on a list of subdatasets without grid
C6_Witness ==
    NoGrid /\ Len(gdalDataset.subDatasets) >= 2 /\ pc = "failed"
        /\ error = "UnboundLocalError"

\* the subdataset has exactly the reference grid's dimensions
MatchesRef(k) ==
    /\ RefIndex # 0
    /\ fileNames[k].RasterXSize = fileNames[RefIndex].RasterXSize
    /\ fileNames[k].RasterYSize = fileNames[RefIndex].RasterYSize

\* the subdataset is classified as an X or a Y geolocation coordinate source
IsCoordinateSource(k) ==
    MatchesRef(k) /\ (IsXName(fileNames[k].fileName) \/ IsYName(fileNames[k].fileName))

RECURSIVE DataBandCount(_)
DataBandCount(k) ==
    IF k = 0 THEN 0
    ELSE DataBandCount(k - 1)
            + (IF MatchesRef(k) /\ ~IsCoordinateSource(k)
               THEN Len(fileNames[k].bands) ELSE 0)

\* C7: the reference grid is the first entry with width > 1 and height > 1, its
\* dimensions stay what they were when it was chosen, and _create_bands gets as
\* many descriptors as the subdatasets of exactly the reference dimensions have
\* bands, those classified as X / Y coordinate sources left out.
C7_ReferenceGridAndBandCount ==
    /\ firstSubDataset # 0 =>
         /\ firstSubDataset = RefIndex
         /\ firstXSize = fileNames[RefIndex].RasterXSize
         /\ firstYSize = fileNames[RefIndex].RasterYSize
    /\ (firstSubDataset = 0 /\ RefIndex # 0) => (pc \in {"normalize", "subdatasets"} /\ i <= RefIndex)
    /\ firstSubDataset = 0 => (firstXSize = 0 /\ firstYSize = 0)
    /\ self.bandsCreated => Len(self.bands) = DataBandCount(Len(fileNames))

\* C7 witness: the grid is the second entry, an entry of other dimensions and a
\* coordinate source were left out, two descriptors were created
C7_Witness ==
    /\ pc = "done" /\ RefIndex = 2 /\ Len(fileNames) = 3
    /\ Len(xDatasetSource) > 0
    /\ ~MatchesRef(1)
    /\ Len(self.bands) = 2

(***************************************************************************)
(* Properties: band descriptors (checked under SpecBand)                   *)
(***************************************************************************)

\* the metadata of the band that descriptor n was built from (the inputs of
\* SpecBand have a single subdataset)
BandMetadataOf(n) == FirstGrid.bands[n].metadata

\* the value of the first alias, in order, whose value is non-empty; "" if none
RECURSIVE FirstNonEmpty(_, _)
FirstNonEmpty(md, aliases) ==
    IF aliases = <<>> THEN ""
    ELSE IF Head(aliases) \in DOMAIN md /\ md[Head(aliases)] # ""
    THEN md[Head(aliases)]
    ELSE FirstNonEmpty(md, Tail(aliases))

FieldIs(d, field, value) ==
    IF value # "" THEN field \in DOMAIN d /\ d[field] = value
    ELSE field \notin DOMAIN d

\* C8 as stated: src.ScaleRatio is the value of the first of ScaleRatio, scale,
\* scale_factor whose value is non-empty, src.ScaleOffset that of the first of
\* ScaleOffset, offset, add_offset; the field is omitted only when no alias has
\* a non-empty value.
C8_FirstNonEmptyAlias ==
    self.bandsCreated =>
        \A n \in 1..Len(self.bands) :
            /\ FieldIs(self.bands[n].src, "ScaleRatio",
                       FirstNonEmpty(BandMetadataOf(n),
                                     <<"ScaleRatio", "scale", "scale_factor">>))
            /\ FieldIs(self.bands[n].src, "ScaleOffset",
                       FirstNonEmpty(BandMetadataOf(n),
                                     <<"ScaleOffset", "offset", "add_offset">>))

AbsentOrNonEmpty(d, field) == field \in DOMAIN d => d[field] # ""

\* C9 as stated: every descriptor has SourceFilename and SourceBand, and each
\* of src.ScaleRatio, src.ScaleOffset, dst.name, dst.wkv is absent or non-empty;
\* without 'standard_name' there is no wkv, without a non-empty naming key no
\* name.
C9_OptionalFieldsNeverEmpty ==
    self.bandsCreated =>
        \A n \in 1..Len(self.bands) :
            LET src == self.bands[n].src
                dst == self.bands[n].dst
                md == BandMetadataOf(n)
            IN  /\ {"SourceFilename", "SourceBand"} \subseteq DOMAIN src
                /\ AbsentOrNonEmpty(src, "ScaleRatio")
                /\ AbsentOrNonEmpty(src, "ScaleOffset")
                /\ AbsentOrNonEmpty(dst, "name")
                /\ AbsentOrNonEmpty(dst, "wkv")
                /\ "standard_name" \notin DOMAIN md => "wkv" \notin DOMAIN dst
                /\ FirstNonEmpty(md, <<"NETCDF_VARNAME", "dods_variable">>) = ""
                     => "name" \notin DOMAIN dst

\* C9 amended: every descriptor has SourceFilename and SourceBand; src.ScaleRatio
\* and src.ScaleOffset are absent or non-empty; dst.wkv is always present and is
\* the value of 'standard_name', the empty string when there is none; dst.name
\* is the first non-empty of NETCDF_VARNAME, dods_variable, and without one it
\* is whatever the band's own metadata holds under 'name' (absent if nothing).
C9_DescriptorFields ==
    self.bandsCreated =>
        \A n \in 1..Len(self.bands) :
            LET src == self.bands[n].src
                dst == self.bands[n].dst
                md == BandMetadataOf(n)
                bandName == FirstNonEmpty(md, <<"NETCDF_VARNAME", "dods_variable">>)
            IN  /\ {"SourceFilename", "SourceBand"} \subseteq DOMAIN src
                /\ src["SourceFilename"] = FirstGrid.fileName
                /\ src["SourceBand"] = n
                /\ AbsentOrNonEmpty(src, "ScaleRatio")
                /\ AbsentOrNonEmpty(src, "ScaleOffset")
                /\ "wkv" \in DOMAIN dst
                /\ dst["wkv"] = (IF "standard_name" \in DOMAIN md
                                 THEN md["standard_name"] ELSE "")
                /\ IF bandName # ""
                   THEN "name" \in DOMAIN dst /\ dst["name"] = bandName
                   ELSE /\ "name" \in DOMAIN dst <=> "name" \in DOMAIN md
                        /\ "name" \in DOMAIN md => dst["name"] = md["name"]

\* C9 witness: a descriptor of a band without standard name and without a
\* non-empty naming key
C9_Witness ==
    /\ pc = "done"
    /\ \E n \in 1..Len(self.bands) :
         /\ "standard_name" \notin DOMAIN BandMetadataOf(n)
         /\ "NETCDF_VARNAME" \in DOMAIN BandMetadataOf(n)
         /\ FirstNonEmpty(BandMetadataOf(n), <<"NETCDF_VARNAME", "dods_variable">>) = ""
         /\ self.bands[n].dst["wkv"] = ""
         /\ "name" \notin DOMAIN self.bands[n].dst

(***************************************************************************)
(* Properties: metadata normalisation (checked under SpecMeta)             *)
(***************************************************************************)

StartsWith(key, prefix) ==
    Len(key) >= Len(prefix) /\ SubSeq(key, 1, Len(prefix)) = prefix

Without(key, prefix) == SubSeq(key, Len(prefix) + 1, Len(key))

\* C10 as stated: the primary mapping has an entry only for raw keys that start
\* with 'NC_GLOBAL#GDAL_', under the key with the prefix removed; a key of the
\* NANSAT namespace is only in the geo-metadata mapping, under its further
\* stripped name.
C10_OnlyPrefixedKeys ==
    pc # "normalize" =>
        /\ \A key \in DOMAIN gdalMetadata :
             \E raw \in DOMAIN rawMetadata :
                StartsWith(raw, GdalPrefix) /\ key = Without(raw, GdalPrefix)
        /\ \A raw \in DOMAIN rawMetadata :
             StartsWith(raw, NansatPrefix) =>
                /\ Without(raw, NansatPrefix) \in DOMAIN geoMetadata
                /\ Without(raw, GdalPrefix) \notin DOMAIN gdalMetadata

=============================================================================
